---- MODULE Spec2Model ----
(***************************************************************************)
(* The order-book cache of backend/orderbook.py: OrderBookManager with its *)
(* per-ticker OrderBook, the REST seed made by subscribe, and the feed     *)
(* messages handled by _handle_ws_message.                                 *)
(***************************************************************************)
EXTENDS Integers, Sequences, FiniteSets, TLC

\* ------------------------------------------------------------------ bounds
\* Prices are 1..MaxPrice and quantities 0..MaxQty (0 is the "remove" quantity).
MaxPrice == 3
MaxQty == 1
\* The cache holds at most MaxLevels price levels over all books.
MaxLevels == 2
\* Entries carried by one feed message or REST response: at most MaxLevels
\* when only BookTickers are in play (SpecBook), at most MaxEntries when all
\* Tickers are (Spec).
MaxEntries == 1
\* start_websocket gets past its `if self._running` test at most MaxTasks
\* times, so at most MaxTasks run_ws tasks are ever created.
MaxTasks == 2

\* asyncio.sleep(5) of run_ws and asyncio.sleep(1) of start_websocket, in
\* seconds.
BackoffDelay == 5
StartDelay == 1

\* The price of a sure contract, in cents: the 100 of `100 - best_yes_bid`.
Cents == 100

Tickers == {"T1", "T2"}
BookTickers == {"T1"}
Prices == 1..MaxPrice
Qtys == 0..MaxQty

\* ------------------------------------------------------------ Python values
\* Optional[int]: None is the empty tuple, a value v is <<v>>.
None == << >>
Some(v) == <<v>>

\* dict.get(key, default)
DictGet(d, k, default) == IF k \in DOMAIN d THEN d[k] ELSE default

\* The empty dict {} (the default of data.get("yes", {})).
EmptyDict == << >>

\* ------------------------------------------------------------ wire payloads
\* One entry [price, qty] of a "bids"/"asks" array.
Entries == Prices \X Qtys

EntryLists == UNION {[1..k -> Entries] : k \in 0..MaxLevels}

\* The value under "yes": a dict holding any of the keys "bids" and "asks",
\* with at most n entries in all.
SideDictsOf(n) ==
    {s \in UNION {[K -> EntryLists] : K \in SUBSET {"bids", "asks"}} :
        Len(DictGet(s, "bids", << >>)) + Len(DictGet(s, "asks", << >>)) <= n}

\* A REST response / the "orderbook" value of a snapshot message: a dict with
\* or without the key "yes".
DataDictsOf(n) == {EmptyDict} \cup {[yes |-> s] : s \in SideDictsOf(n)}

SideDicts == SideDictsOf(MaxLevels)
DataDicts == DataDictsOf(MaxLevels)
SmallDataDicts == DataDictsOf(MaxEntries)

\* Entries as they may come over the wire: the well-formed pairs at the
\* quantity MaxQty, and a list of one element, which is no pair.
RawEntries == {<<p, MaxQty>> : p \in 1..MaxLevels} \cup {<<1>>}

RawEntryLists == UNION {[1..k -> RawEntries] : k \in 0..MaxLevels}

RawSideDicts ==
    {s \in UNION {[K -> RawEntryLists] : K \in SUBSET {"bids", "asks"}} :
        Len(DictGet(s, "bids", << >>)) + Len(DictGet(s, "asks", << >>)) <= MaxLevels}

RawDataDicts == {EmptyDict} \cup {[yes |-> s] : s \in RawSideDicts}

\* The payloads the feed loop is run against: bids of at most MaxEntries
\* entries, the entry a pair or not.
FeedEntries == {<<1, 1>>, <<1>>}

FeedEntryLists == UNION {[1..k -> FeedEntries] : k \in 0..MaxEntries}

FeedSideDicts == {[bids |-> l] : l \in FeedEntryLists}

FeedDataDicts == {EmptyDict} \cup {[yes |-> s] : s \in FeedSideDicts}

\* ------------------------------------------------------------------- state
VARIABLES
    books,        \* OrderBookManager._books: ticker -> OrderBook
    subscribed,   \* OrderBookManager._subscribed_tickers
    seed,         \* per ticker, where its subscribe call stands: "none" (never
                  \* called), "in_flight" (suspended in get_orderbook), "ok"
                  \* (returned after the snapshot), "failed" (returned from except)
    fetches,      \* number of REST get_orderbook requests issued, per ticker
    last,         \* the operation that produced this state
    running,      \* OrderBookManager._running
    ws_task,      \* OrderBookManager._ws_task: the id of a run_ws task, 0 for None
    run_ws,       \* the run_ws tasks created so far, by id: where each stands
    starting,     \* the start_websocket calls that created a task, by task id
    ws,           \* KalshiClient._ws: the connection last opened
    yes_bid,      \* market["yes_bid"] as Kalshi's get_market answers it now
    market_data   \* what the last _fetch_market_data call returned

feedvars == <<running, ws_task, run_ws, starting, ws>>

marketvars == <<yes_bid, market_data>>

vars == <<books, subscribed, seed, fetches, last, running, ws_task, run_ws, starting, ws,
          yes_bid, market_data>>

\* ------------------------------------------------------------- OrderBook
OrderBookLevel(p, q) == [price |-> p, quantity |-> q]

OrderBook(t) == [ticker |-> t, bids |-> << >>, asks |-> << >>]

\* OrderBook.best_bid: the first stored bid.
best_bid(book) == IF book.bids # << >> THEN Some(book.bids[1].price) ELSE None

\* OrderBook.best_ask: the first stored ask.
best_ask(book) == IF book.asks # << >> THEN Some(book.asks[1].price) ELSE None

\* ------------------------------------------------------------- sorting
\* list.sort / sorted are stable: equal keys keep their order, also with
\* reverse=True.  Insert x behind every element that may stay in front of it.
RECURSIVE InsertLast(_, _, _)
InsertLast(s, x, desc) ==
    IF s = << >> THEN <<x>>
    ELSE LET y == s[Len(s)]
             stays == IF desc THEN y.price >= x.price ELSE y.price <= x.price
         IN  IF stays THEN Append(s, x)
             ELSE Append(InsertLast(SubSeq(s, 1, Len(s) - 1), x, desc), y)

RECURSIVE StableSort(_, _)
StableSort(s, desc) ==
    IF s = << >> THEN << >>
    ELSE InsertLast(StableSort(SubSeq(s, 1, Len(s) - 1), desc), s[Len(s)], desc)

\* ------------------------------------------------------------- reads
get_book(bks, t) == IF t \in DOMAIN bks THEN Some(bks[t]) ELSE None

get_best_ask(bks, t) == IF t \in DOMAIN bks THEN best_ask(bks[t]) ELSE None

get_best_bid(bks, t) == IF t \in DOMAIN bks THEN best_bid(bks[t]) ELSE None

\* get_asks without its sorted(): the stored list as it is.
get_asks_unsorted(bks, t) ==
    IF t \notin DOMAIN bks THEN << >> ELSE bks[t].asks

\* sorted(book.asks, key=price)
get_asks(bks, t) ==
    IF t \notin DOMAIN bks THEN << >> ELSE StableSort(bks[t].asks, FALSE)

\* The for loop of get_available_contracts, from index i with running total.
RECURSIVE AvailableLoop(_, _, _, _)
AvailableLoop(asks, i, limit_price, total) ==
    IF i > Len(asks) THEN total
    ELSE IF asks[i].price <= limit_price
         THEN AvailableLoop(asks, i + 1, limit_price, total + asks[i].quantity)
         ELSE total

AvailableIn(asks, limit_price) == AvailableLoop(asks, 1, limit_price, 0)

get_available_contracts(bks, t, limit_price) ==
    AvailableIn(get_asks(bks, t), limit_price)

\* ------------------------------------------------------------- snapshot
\* level[0] and level[1] exist for every entry: the list comprehension of
\* _update_book_from_snapshot runs to its end (else it raises IndexError).
SnapshotEntriesOk(entries) == \A i \in 1..Len(entries) : Len(entries[i]) >= 2

\* The comprehension reading the quantity first:
\* OrderBookLevel(price=level[1], quantity=level[0]).
ParseLevels_swapped(entries) ==
    [i \in 1..Len(entries) |-> OrderBookLevel(entries[i][2], entries[i][1])]

\* [OrderBookLevel(price=level[0], quantity=level[1]) for level in entries]
ParseLevels(entries) ==
    [i \in 1..Len(entries) |-> OrderBookLevel(entries[i][1], entries[i][2])]

SnapshotBidEntries(data) == DictGet(DictGet(data, "yes", EmptyDict), "bids", << >>)

SnapshotAskEntries(data) == DictGet(DictGet(data, "yes", EmptyDict), "asks", << >>)

SnapshotBids(data) == ParseLevels(SnapshotBidEntries(data))

SnapshotAsks(data) == ParseLevels(SnapshotAskEntries(data))

\* _update_book_from_snapshot assigning only the sides the payload names.
update_book_from_snapshot_keeping(bks, t, data) ==
    IF t \notin DOMAIN bks THEN bks
    ELSE LET yes == DictGet(data, "yes", EmptyDict)
         IN  [bks EXCEPT ![t] =
                 [ticker |-> bks[t].ticker,
                  bids |-> IF "bids" \in DOMAIN yes
                           THEN SnapshotBids(data) ELSE bks[t].bids,
                  asks |-> IF "asks" \in DOMAIN yes
                           THEN SnapshotAsks(data) ELSE bks[t].asks]]

\* _update_book_from_snapshot making a book for a ticker that has none.
update_book_from_snapshot_creating(bks, t, data) ==
    [x \in DOMAIN bks \cup {t} |->
        IF x = t
        THEN [ticker |-> t, bids |-> SnapshotBids(data), asks |-> SnapshotAsks(data)]
        ELSE bks[x]]

\* _update_book_from_snapshot raises: an entry of either array is too short.
snapshot_raises(bks, t, data) ==
    /\ t \in DOMAIN bks
    /\ \/ ~SnapshotEntriesOk(SnapshotBidEntries(data))
       \/ ~SnapshotEntriesOk(SnapshotAskEntries(data))

\* The books _update_book_from_snapshot leaves.  book.bids is assigned once
\* its comprehension has run, then book.asks once its own has: a raise in
\* the first leaves the book as it was, a raise in the second leaves the new
\* bids beside the old asks.
update_book_from_snapshot(bks, t, data) ==
    IF t \notin DOMAIN bks THEN bks
    ELSE IF ~SnapshotEntriesOk(SnapshotBidEntries(data)) THEN bks
    ELSE IF ~SnapshotEntriesOk(SnapshotAskEntries(data))
    THEN [bks EXCEPT ![t] = [ticker |-> bks[t].ticker,
                             bids |-> SnapshotBids(data),
                             asks |-> bks[t].asks]]
    ELSE [bks EXCEPT ![t] = [ticker |-> bks[t].ticker,
                             bids |-> SnapshotBids(data),
                             asks |-> SnapshotAsks(data)]]

\* ------------------------------------------------------------- delta
\* next((l for l in levels if l.price == price), None), as an index (0: None)
RECURSIVE FindFrom(_, _, _)
FindFrom(levels, price, i) ==
    IF i > Len(levels) THEN 0
    ELSE IF levels[i].price = price THEN i
    ELSE FindFrom(levels, price, i + 1)

Existing(levels, price) == FindFrom(levels, price, 1)

RemoveAt(levels, i) ==
    SubSeq(levels, 1, i - 1) \o SubSeq(levels, i + 1, Len(levels))

\* One iteration of the for loop of _apply_delta.
ApplyOne(levels, price, qty) ==
    LET e == Existing(levels, price)
    IN  IF qty = 0
        THEN IF e # 0 THEN RemoveAt(levels, e) ELSE levels
        ELSE IF e # 0
             THEN [levels EXCEPT ![e].quantity = qty]
             ELSE Append(levels, OrderBookLevel(price, qty))

\* `for price, qty in deltas` unpacks every entry: each is a pair (else the
\* loop raises ValueError at that entry).
DeltaEntriesOk(deltas) == \A i \in 1..Len(deltas) : Len(deltas[i]) = 2

\* The loop runs on the list in place and stops at the first entry it cannot
\* unpack, the entries before it already applied.
RECURSIVE FoldDeltas(_, _, _)
FoldDeltas(levels, deltas, i) ==
    IF i > Len(deltas) THEN levels
    ELSE IF Len(deltas[i]) # 2 THEN levels
    ELSE FoldDeltas(ApplyOne(levels, deltas[i][1], deltas[i][2]), deltas, i + 1)

\* _apply_delta: the fold, then levels.sort(key=price, reverse=True); the
\* sort is not reached when the fold raises.
apply_delta(levels, deltas) ==
    IF DeltaEntriesOk(deltas)
    THEN StableSort(FoldDeltas(levels, deltas, 1), TRUE)
    ELSE FoldDeltas(levels, deltas, 1)

\* _update_book_from_delta making a book for a ticker that has none
\* (self._books.setdefault in place of self._books.get).
update_book_from_delta_creating(bks, t, data) ==
    LET all == [x \in DOMAIN bks \cup {t} |->
                   IF x \in DOMAIN bks THEN bks[x]
                   ELSE [ticker |-> t, bids |-> << >>, asks |-> << >>]]
    IN  IF "yes" \notin DOMAIN data THEN all
        ELSE LET yes == data["yes"]
                 b == IF "bids" \in DOMAIN yes
                      THEN apply_delta(all[t].bids, yes["bids"]) ELSE all[t].bids
                 a == IF "asks" \in DOMAIN yes
                      THEN apply_delta(all[t].asks, yes["asks"]) ELSE all[t].asks
             IN  [all EXCEPT ![t] = [ticker |-> t, bids |-> b, asks |-> a]]

\* _update_book_from_delta raises: _apply_delta does, on the bids or on the
\* asks.
delta_raises(bks, t, data) ==
    /\ t \in DOMAIN bks
    /\ "yes" \in DOMAIN data
    /\ \/ ~DeltaEntriesOk(DictGet(data["yes"], "bids", << >>))
       \/ ~DeltaEntriesOk(DictGet(data["yes"], "asks", << >>))

\* The books _update_book_from_delta leaves: the bids first, and the asks
\* only when the bids did not raise.
update_book_from_delta(bks, t, data) ==
    IF t \notin DOMAIN bks THEN bks
    ELSE IF "yes" \notin DOMAIN data THEN bks
    ELSE LET yes == data["yes"]
             b == IF "bids" \in DOMAIN yes
                  THEN apply_delta(bks[t].bids, yes["bids"]) ELSE bks[t].bids
             a == IF "asks" \in DOMAIN yes
                     /\ DeltaEntriesOk(DictGet(yes, "bids", << >>))
                  THEN apply_delta(bks[t].asks, yes["asks"]) ELSE bks[t].asks
         IN  [bks EXCEPT ![t] = [ticker |-> bks[t].ticker, bids |-> b, asks |-> a]]

\* ------------------------------------------------------------- feed messages
\* A decoded feed message is a dict; every key may be missing.
SnapshotMsg(t, d) == [type |-> "orderbook_snapshot", market_ticker |-> t, orderbook |-> d]

DeltaMsg(t, s) == [type |-> "orderbook_delta", market_ticker |-> t, yes |-> s]

MessagesOf(ts, n) ==
    {SnapshotMsg(t, d) : t \in ts, d \in DataDictsOf(n)}
    \cup {[type |-> "orderbook_snapshot", market_ticker |-> t] : t \in ts}
    \cup {[type |-> "orderbook_snapshot", orderbook |-> EmptyDict]}
    \cup {DeltaMsg(t, s) : t \in ts, s \in SideDictsOf(n)}
    \cup {[type |-> "orderbook_delta", market_ticker |-> t] : t \in ts}
    \cup {[type |-> "orderbook_delta", yes |-> EmptyDict]}
    \cup {[type |-> "subscribed", market_ticker |-> t] : t \in ts}
    \cup {EmptyDict}

Messages == MessagesOf(Tickers, MaxEntries)
BookMessages == MessagesOf(BookTickers, MaxLevels)

\* data.get("type"); the string "None" stands for Python's None.
MsgType(data) == IF "type" \in DOMAIN data THEN data["type"] ELSE "None"

\* data.get("market_ticker")
MsgTicker(data) ==
    IF "market_ticker" \in DOMAIN data THEN data["market_ticker"] ELSE "None"

\* _handle_ws_message, as the books it leaves.
handle_ws_message(bks, data) ==
    IF MsgType(data) = "orderbook_snapshot"
    THEN IF MsgTicker(data) # "None"
         THEN update_book_from_snapshot(bks, MsgTicker(data),
                                        DictGet(data, "orderbook", EmptyDict))
         ELSE bks
    ELSE IF MsgType(data) = "orderbook_delta"
    THEN IF MsgTicker(data) # "None"
         THEN update_book_from_delta(bks, MsgTicker(data), data)
         ELSE bks
    ELSE bks

\* A handler that raises on a type it does not know.
handle_ws_message_raises_on_unknown(bks, data) ==
    MsgType(data) \notin {"orderbook_snapshot", "orderbook_delta"}

\* _handle_ws_message raises: the handler it dispatches to does.
handle_ws_message_raises(bks, data) ==
    IF MsgType(data) = "orderbook_snapshot"
    THEN /\ MsgTicker(data) # "None"
         /\ snapshot_raises(bks, MsgTicker(data), DictGet(data, "orderbook", EmptyDict))
    ELSE IF MsgType(data) = "orderbook_delta"
    THEN MsgTicker(data) # "None" /\ delta_raises(bks, MsgTicker(data), data)
    ELSE FALSE

\* ------------------------------------------------------------- subscribe
\* subscribe without its membership test.
subscribe_always_new(subs, t) == TRUE

\* The test `ticker not in self._subscribed_tickers` of subscribe.
subscribe_is_new(subs, t) == t \notin subs

\* self._books = {ticker: OrderBook(ticker=ticker)}: a new map holding the
\* new book only.
books_with_new_only(bks, t) == [x \in {t} |-> OrderBook(t)]

\* self._books[ticker] = OrderBook(ticker=ticker)
books_with_new(bks, t) ==
    [x \in DOMAIN bks \cup {t} |-> IF x = t THEN OrderBook(t) ELSE bks[x]]

SideLevels(book) == Len(book.bids) + Len(book.asks)

RECURSIVE SumLevels(_, _)
SumLevels(bks, ts) ==
    IF ts = {} THEN 0
    ELSE LET t == CHOOSE x \in ts : TRUE
         IN  SideLevels(bks[t]) + SumLevels(bks, ts \ {t})

\* Number of price levels held by the whole cache.
TotalLevels(bks) == SumLevels(bks, DOMAIN bks)

\* Whether ticker t has a book that holds a level.
HadLevels(bks, t) == t \in DOMAIN bks /\ SideLevels(bks[t]) > 0

\* The record kept in last: the operation, the ticker it named ("None" when
\* it named none) and, for a snapshot (REST seed or feed message), whether
\* that ticker's book held a level when the snapshot arrived.
Last(op, t, had) == [op |-> op, ticker |-> t, had |-> had]

TaskIds == 1..MaxTasks

\* A run_ws task: pc is "none" (not created), "created" (not yet run),
\* "connecting" (suspended in websockets.connect), "receiving" (suspended in
\* `async for message in self._ws`), "sleeping" (suspended in the sleep of
\* the except branch) or "done"; timer is the time its sleep still has to
\* run; cancel says that cancel() was called on it and not yet delivered.
Task(pc, timer, cancel) == [pc |-> pc, timer |-> timer, cancel |-> cancel]

\* A start_websocket call past create_task: "sleeping" (in its sleep),
\* "done" (returned) or "raised" (client.subscribe raised); "none" before.
Starter(pc, timer) == [pc |-> pc, timer |-> timer]

\* KalshiClient._ws: state is "none" (None), "open" or "closed"; sent holds
\* the ticker sets of the subscribe commands sent on it; want is the
\* subscription set at the time it was opened.
Socket(state, sent, want) == [state |-> state, sent |-> sent, want |-> want]

Init ==
    /\ books = << >>
    /\ subscribed = {}
    /\ seed = [t \in Tickers |-> "none"]
    /\ fetches = [t \in Tickers |-> 0]
    /\ last = Last("init", "None", FALSE)
    /\ running = FALSE
    /\ ws_task = 0
    /\ run_ws = [k \in TaskIds |-> Task("none", 0, FALSE)]
    /\ starting = [k \in TaskIds |-> Starter("none", 0)]
    /\ ws = Socket("none", {}, {})
    /\ yes_bid = None
    /\ market_data = [yes_bid |-> None, no_ask |-> None]

\* subscribe(ticker) up to its await of client.get_orderbook (or to its end
\* when the ticker is already subscribed).
SubscribeCall(t) ==
    /\ IF subscribe_is_new(subscribed, t)
       THEN /\ subscribed' = subscribed \cup {t}
            /\ books' = books_with_new(books, t)
            /\ seed' = [seed EXCEPT ![t] = "in_flight"]
            /\ fetches' = [fetches EXCEPT ![t] = @ + 1]
            /\ last' = Last("subscribe", t, FALSE)
       ELSE /\ last' = Last("resubscribe", t, FALSE)
            /\ UNCHANGED <<books, subscribed, seed, fetches>>
    /\ UNCHANGED feedvars
    /\ UNCHANGED marketvars

\* get_orderbook returns data: the rest of subscribe's try block, and its
\* except branch when _update_book_from_snapshot raises on the data.
FetchOk(t, data) ==
    /\ seed[t] = "in_flight"
    /\ books' = update_book_from_snapshot(books, t, data)
    /\ TotalLevels(books') <= MaxLevels
    /\ seed' = [seed EXCEPT ![t] =
                   IF snapshot_raises(books, t, data) THEN "failed" ELSE "ok"]
    /\ last' = Last(IF snapshot_raises(books, t, data) THEN "seed_raised" ELSE "seed",
                     t, HadLevels(books, t))
    /\ UNCHANGED <<subscribed, fetches>>
    /\ UNCHANGED feedvars
    /\ UNCHANGED marketvars

\* An except branch of subscribe that takes the registration back.
FetchFail_unregistering(t) ==
    /\ seed[t] = "in_flight"
    /\ seed' = [seed EXCEPT ![t] = "failed"]
    /\ subscribed' = subscribed \ {t}
    /\ books' = [u \in DOMAIN books \ {t} |-> books[u]]
    /\ last' = Last("seed_failed", t, FALSE)
    /\ UNCHANGED fetches
    /\ UNCHANGED feedvars
    /\ UNCHANGED marketvars

\* get_orderbook raises: the except branch of subscribe.
FetchFail(t) ==
    /\ seed[t] = "in_flight"
    /\ seed' = [seed EXCEPT ![t] = "failed"]
    /\ last' = Last("seed_failed", t, FALSE)
    /\ UNCHANGED <<books, subscribed, fetches>>
    /\ UNCHANGED feedvars
    /\ UNCHANGED marketvars

\* One feed message passed to _handle_ws_message.
HandleWsMessage(msg) ==
    /\ books' = handle_ws_message(books, msg)
    /\ TotalLevels(books') <= MaxLevels
    /\ last' = Last(MsgType(msg), MsgTicker(msg),
                     MsgType(msg) = "orderbook_snapshot"
                     /\ HadLevels(books, MsgTicker(msg)))
    /\ UNCHANGED <<subscribed, seed, fetches>>
    /\ UNCHANGED feedvars
    /\ UNCHANGED marketvars

\* The whole cache: every ticker, messages of at most MaxEntries entries.
Next ==
    \/ \E t \in Tickers : SubscribeCall(t)
    \/ \E t \in Tickers, data \in SmallDataDicts : FetchOk(t, data)
    \/ \E t \in Tickers : FetchFail(t)
    \/ \E msg \in Messages : HandleWsMessage(msg)

Spec == Init /\ [][Next]_vars

\* One book in depth: the tickers of BookTickers, messages of at most
\* MaxLevels entries.
NextBook ==
    \/ \E t \in BookTickers : SubscribeCall(t)
    \/ \E t \in BookTickers, data \in DataDicts : FetchOk(t, data)
    \/ \E t \in BookTickers : FetchFail(t)
    \/ \E msg \in BookMessages : HandleWsMessage(msg)

SpecBook == Init /\ [][NextBook]_vars

\* ------------------------------------------------------------- feed loop
\* What the feed puts on the connection: a frame, decoded by json.loads.
\* BadFrame is a frame json.loads raises on.
BadFrame == [not_json |-> TRUE]

FeedFrames ==
    {SnapshotMsg(t, d) : t \in BookTickers, d \in FeedDataDicts}
    \cup {DeltaMsg(t, s) : t \in BookTickers, s \in FeedSideDicts}
    \cup {[type |-> "subscribed", market_ticker |-> t] : t \in BookTickers}
    \cup {EmptyDict}
    \cup {BadFrame}

cachevars == <<books, subscribed, seed, fetches>>

\* Number of run_ws tasks created so far.
Created == Cardinality({k \in TaskIds : run_ws[k].pc # "none"})

\* start_websocket with no test of self._running.
start_never_returns_early(r) == FALSE

\* `if self._running: return` of start_websocket.
start_returns_early(r) == r

\* start_websocket() up to its await of asyncio.sleep(1) (or to its return
\* when the manager is running).
StartWebsocket ==
    /\ IF start_returns_early(running)
       THEN /\ last' = Last("restart", "None", FALSE)
            /\ UNCHANGED feedvars
       ELSE /\ Created < MaxTasks
            /\ running' = TRUE
            /\ ws_task' = Created + 1
            /\ run_ws' = [run_ws EXCEPT ![Created + 1] = Task("created", 0, FALSE)]
            /\ starting' = [starting EXCEPT ![Created + 1] = Starter("sleeping", StartDelay)]
            /\ last' = Last("start_websocket", "None", FALSE)
            /\ UNCHANGED ws
    /\ UNCHANGED cachevars
    /\ UNCHANGED marketvars

\* stop(): Task.cancel() asks for the cancellation of a task that is not done.
Stop ==
    /\ running' = FALSE
    /\ run_ws' = IF ws_task # 0 /\ run_ws[ws_task].pc # "done"
                 THEN [run_ws EXCEPT ![ws_task].cancel = TRUE]
                 ELSE run_ws
    /\ last' = Last("stop", "None", FALSE)
    /\ UNCHANGED <<ws_task, starting, ws>>
    /\ UNCHANGED cachevars
    /\ UNCHANGED marketvars

\* A task the event loop can resume in its code: created, not done, and with
\* no cancellation waiting for it.
Live(k) == run_ws[k].pc \notin {"none", "done"} /\ ~run_ws[k].cancel

\* `while self._running:` followed by the call of connect_websocket.
loop_head(r) == IF r THEN "connecting" ELSE "done"

\* run_ws catching an exception and going on at once, with no sleep.
on_exception_no_sleep(task) == [task EXCEPT !.pc = "connecting", !.timer = 0]

\* `except Exception` of run_ws: print, then await asyncio.sleep(5).
on_exception(task) == [task EXCEPT !.pc = "sleeping", !.timer = BackoffDelay]

\* The first step of a task: the loop test and the connection attempt.
TaskStart(k) ==
    /\ Live(k)
    /\ run_ws[k].pc = "created"
    /\ run_ws' = [run_ws EXCEPT ![k].pc = loop_head(running)]
    /\ last' = Last("run_ws", "None", FALSE)
    /\ UNCHANGED <<running, ws_task, starting, ws>>
    /\ UNCHANGED cachevars
    /\ UNCHANGED marketvars

\* A connection handler that empties every book on a new connection.
ConnectOk_clearing(k) ==
    /\ Live(k)
    /\ run_ws[k].pc = "connecting"
    /\ run_ws' = [run_ws EXCEPT ![k].pc = "receiving"]
    /\ ws' = Socket("open", {}, subscribed)
    /\ books' = [t \in DOMAIN books |-> OrderBook(t)]
    /\ last' = Last("run_ws", "None", FALSE)
    /\ UNCHANGED <<running, ws_task, starting, subscribed, seed, fetches>>
    /\ UNCHANGED marketvars

\* websockets.connect returns: self._ws is the new connection and the task
\* waits for its first message.
ConnectOk(k) ==
    /\ Live(k)
    /\ run_ws[k].pc = "connecting"
    /\ run_ws' = [run_ws EXCEPT ![k].pc = "receiving"]
    /\ ws' = Socket("open", {}, subscribed)
    /\ last' = Last("run_ws", "None", FALSE)
    /\ UNCHANGED <<running, ws_task, starting>>
    /\ UNCHANGED cachevars
    /\ UNCHANGED marketvars

\* websockets.connect (or the signing of the headers) raises.
ConnectFail(k) ==
    /\ Live(k)
    /\ run_ws[k].pc = "connecting"
    /\ run_ws' = [run_ws EXCEPT ![k] = on_exception(@)]
    /\ last' = Last("ws_error", "None", FALSE)
    /\ UNCHANGED <<running, ws_task, starting, ws>>
    /\ UNCHANGED cachevars
    /\ UNCHANGED marketvars

\* The open stream fails: `async for` raises ConnectionClosedError.
StreamError(k) ==
    /\ Live(k)
    /\ run_ws[k].pc = "receiving"
    /\ run_ws' = [run_ws EXCEPT ![k] = on_exception(@)]
    /\ ws' = [ws EXCEPT !.state = "closed"]
    /\ last' = Last("ws_error", "None", FALSE)
    /\ UNCHANGED <<running, ws_task, starting>>
    /\ UNCHANGED cachevars
    /\ UNCHANGED marketvars

\* The server closes the stream cleanly: `async for` ends, connect_websocket
\* returns and the loop test follows at once.
StreamClosed(k) ==
    /\ Live(k)
    /\ run_ws[k].pc = "receiving"
    /\ run_ws' = [run_ws EXCEPT ![k].pc = loop_head(running)]
    /\ ws' = [ws EXCEPT !.state = "closed"]
    /\ last' = Last("run_ws", "None", FALSE)
    /\ UNCHANGED <<running, ws_task, starting>>
    /\ UNCHANGED cachevars
    /\ UNCHANGED marketvars

\* json.loads(message) or the handler raises on the frame.
frame_raises(bks, frame) ==
    "not_json" \in DOMAIN frame \/ handle_ws_message_raises(bks, frame)

\* The books after the frame: json.loads, then _handle_ws_message.
books_after_frame(bks, frame) ==
    IF "not_json" \in DOMAIN frame THEN bks ELSE handle_ws_message(bks, frame)

\* One frame read by `async for`: json.loads and on_message; what they raise
\* leaves connect_websocket and reaches the except branch of run_ws, the
\* connection left as it is.
RecvMessage(k, frame) ==
    /\ Live(k)
    /\ run_ws[k].pc = "receiving"
    /\ books' = books_after_frame(books, frame)
    /\ TotalLevels(books') <= MaxLevels
    /\ run_ws' = IF frame_raises(books, frame)
                 THEN [run_ws EXCEPT ![k] = on_exception(@)]
                 ELSE run_ws
    /\ last' = Last(MsgType(frame), MsgTicker(frame),
                     MsgType(frame) = "orderbook_snapshot"
                     /\ HadLevels(books, MsgTicker(frame)))
    /\ UNCHANGED <<subscribed, seed, fetches, running, ws_task, starting, ws>>
    /\ UNCHANGED marketvars

\* asyncio.sleep(5) is over: the loop test and the next connection attempt.
Wake(k) ==
    /\ Live(k)
    /\ run_ws[k].pc = "sleeping"
    /\ run_ws[k].timer = 0
    /\ run_ws' = [run_ws EXCEPT ![k].pc = loop_head(running)]
    /\ last' = Last("run_ws", "None", FALSE)
    /\ UNCHANGED <<running, ws_task, starting, ws>>
    /\ UNCHANGED cachevars
    /\ UNCHANGED marketvars

\* CancelledError swallowed by the except branch of run_ws.
cancelled_swallowed(task) == [task EXCEPT !.pc = "sleeping", !.timer = BackoffDelay, !.cancel = FALSE]

\* CancelledError is raised at the await the task is suspended in; it is a
\* BaseException, `except Exception` lets it through and the task ends.
cancelled(task) == [task EXCEPT !.pc = "done", !.timer = 0]

\* The event loop resumes a task that cancel() was called on.
TaskCancelled(k) ==
    /\ run_ws[k].cancel
    /\ run_ws[k].pc \notin {"none", "done"}
    /\ run_ws' = [run_ws EXCEPT ![k] = cancelled(@)]
    /\ last' = Last("run_ws", "None", FALSE)
    /\ UNCHANGED <<running, ws_task, starting, ws>>
    /\ UNCHANGED cachevars
    /\ UNCHANGED marketvars

\* The end of start_websocket: after its sleep, client.subscribe with the
\* subscribed tickers when there are any.  client.subscribe sends on
\* self._ws when that is not None; sending on a closed connection raises.
StarterSend(k) ==
    /\ starting[k].pc = "sleeping"
    /\ starting[k].timer = 0
    /\ starting' = [starting EXCEPT ![k].pc =
                       IF subscribed # {} /\ ws.state = "closed"
                       THEN "raised" ELSE "done"]
    /\ ws' = IF subscribed # {} /\ ws.state = "open"
             THEN [ws EXCEPT !.sent = @ \cup {subscribed}]
             ELSE ws
    /\ last' = Last("run_ws", "None", FALSE)
    /\ UNCHANGED <<running, ws_task, run_ws>>
    /\ UNCHANGED cachevars
    /\ UNCHANGED marketvars

\* One second passes for every coroutine suspended in a sleep.
Tick ==
    /\ \/ \E k \in TaskIds : run_ws[k].pc = "sleeping" /\ run_ws[k].timer > 0
       \/ \E k \in TaskIds : starting[k].pc = "sleeping" /\ starting[k].timer > 0
    /\ run_ws' = [k \in TaskIds |->
                    IF run_ws[k].pc = "sleeping" /\ run_ws[k].timer > 0
                    THEN [run_ws[k] EXCEPT !.timer = @ - 1] ELSE run_ws[k]]
    /\ starting' = [k \in TaskIds |->
                      IF starting[k].pc = "sleeping" /\ starting[k].timer > 0
                      THEN [starting[k] EXCEPT !.timer = @ - 1] ELSE starting[k]]
    /\ last' = Last("run_ws", "None", FALSE)
    /\ UNCHANGED <<running, ws_task, ws>>
    /\ UNCHANGED cachevars
    /\ UNCHANGED marketvars

\* The feed loop beside the cache of the tickers of BookTickers.
NextFeed ==
    \/ \E t \in BookTickers : SubscribeCall(t)
    \/ \E t \in BookTickers, data \in FeedDataDicts : FetchOk(t, data)
    \/ \E t \in BookTickers : FetchFail(t)
    \/ StartWebsocket
    \/ Stop
    \/ \E k \in TaskIds : TaskStart(k)
    \/ \E k \in TaskIds : ConnectOk(k)
    \/ \E k \in TaskIds : ConnectFail(k)
    \/ \E k \in TaskIds : StreamError(k)
    \/ \E k \in TaskIds : StreamClosed(k)
    \/ \E k \in TaskIds, frame \in FeedFrames : RecvMessage(k, frame)
    \/ \E k \in TaskIds : Wake(k)
    \/ \E k \in TaskIds : TaskCancelled(k)
    \/ \E k \in TaskIds : StarterSend(k)
    \/ Tick

SpecFeed == Init /\ [][NextFeed]_vars

\* The scheduling of asyncio: time goes on while a coroutine sleeps, and the
\* event loop resumes every task that is ready: one whose sleep is over and
\* one that cancel() was called on.
FeedFairness ==
    /\ WF_vars(Tick)
    /\ \A k \in TaskIds : WF_vars(Wake(k))
    /\ \A k \in TaskIds : WF_vars(TaskCancelled(k))

SpecFeedFair == SpecFeed /\ FeedFairness

\* The cache of the tickers of BookTickers under messages and REST responses
\* whose entries may be no pairs.
RawMessages ==
    {SnapshotMsg(t, d) : t \in BookTickers, d \in RawDataDicts}
    \cup {DeltaMsg(t, s) : t \in BookTickers, s \in RawSideDicts}

NextRaw ==
    \/ \E t \in BookTickers : SubscribeCall(t)
    \/ \E t \in BookTickers, data \in RawDataDicts : FetchOk(t, data)
    \/ \E t \in BookTickers : FetchFail(t)
    \/ \E msg \in RawMessages : HandleWsMessage(msg)

SpecRaw == Init /\ [][NextRaw]_vars

\* ------------------------------------------------------------- market data
\* The values market.get("yes_bid") may have: None, or a price in cents.
MarketBids == {None} \cup {Some(c) : c \in 0..Cents}

\* best_no_ask = (100 - best_yes_bid) if best_yes_bid else None: None and 0
\* are both false.
best_no_ask(best_yes_bid) ==
    IF best_yes_bid # None /\ best_yes_bid[1] # 0
    THEN Some(Cents - best_yes_bid[1])
    ELSE None

\* The "yes_bid" and "no_ask" entries of the dict _fetch_market_data returns
\* from its try block.
fetch_market_data(best_yes_bid) ==
    [yes_bid |-> best_yes_bid, no_ask |-> best_no_ask(best_yes_bid)]

\* The market moves: Kalshi answers another yes_bid from now on.
MarketMoves(b) ==
    /\ b # yes_bid
    /\ yes_bid' = b
    /\ last' = Last("market", "None", FALSE)
    /\ UNCHANGED market_data
    /\ UNCHANGED cachevars
    /\ UNCHANGED feedvars

\* A _fetch_market_data call whose requests succeed.
FetchMarketData ==
    /\ market_data' = fetch_market_data(yes_bid)
    /\ last' = Last("fetch_market_data", "None", FALSE)
    /\ UNCHANGED yes_bid
    /\ UNCHANGED cachevars
    /\ UNCHANGED feedvars

\* A _fetch_market_data call one of whose requests raises: the except branch.
FetchMarketDataFails ==
    /\ market_data' = [yes_bid |-> None, no_ask |-> None]
    /\ last' = Last("fetch_market_data_failed", "None", FALSE)
    /\ UNCHANGED yes_bid
    /\ UNCHANGED cachevars
    /\ UNCHANGED feedvars

NextMarket ==
    \/ \E b \in MarketBids : MarketMoves(b)
    \/ FetchMarketData
    \/ FetchMarketDataFails

SpecMarket == Init /\ [][NextMarket]_vars

\* ------------------------------------------------------------- properties
SidePrices(levels) == {levels[i].price : i \in 1..Len(levels)}

MinOf(S) == CHOOSE x \in S : \A y \in S : x <= y

MaxOf(S) == CHOOSE x \in S : \A y \in S : x >= y

\* C1: in every reachable state get_best_ask(ticker) is the lowest price among
\* the ticker's stored ask levels, and None when it stores no ask.
C1_BestAskIsLowest ==
    \A t \in DOMAIN books :
        get_best_ask(books, t) =
            IF books[t].asks = << >> THEN None
            ELSE Some(MinOf(SidePrices(books[t].asks)))

\* C2: in every reachable state get_best_bid(ticker) is the highest price among
\* the ticker's stored bid levels, and None when it stores no bid.
C2_BestBidIsHighest ==
    \A t \in DOMAIN books :
        get_best_bid(books, t) =
            IF books[t].bids = << >> THEN None
            ELSE Some(MaxOf(SidePrices(books[t].bids)))

\* C3: no side of any book ever holds a level whose quantity is 0.
C3_NoZeroQuantity ==
    \A t \in DOMAIN books :
        /\ \A i \in 1..Len(books[t].bids) : books[t].bids[i].quantity # 0
        /\ \A i \in 1..Len(books[t].asks) : books[t].asks[i].quantity # 0

UniquePrices(levels) ==
    \A i, j \in 1..Len(levels) : levels[i].price = levels[j].price => i = j

\* C4: within each side of each book every price occurs in at most one level.
C4_UniquePricePerSide ==
    \A t \in DOMAIN books :
        UniquePrices(books[t].bids) /\ UniquePrices(books[t].asks)

\* Number of levels of a side equal to level x.
CountOf(levels, x) == Cardinality({i \in 1..Len(levels) : levels[i] = x})

\* The two sides hold the same levels, each as many times.
SameLevels(a, b) ==
    /\ Len(a) = Len(b)
    /\ \A i \in 1..Len(a) : CountOf(a, a[i]) = CountOf(b, a[i])

\* Every entry of deltas is (p, 0) with p absent from levels.
ZeroOnAbsent(deltas, levels) ==
    \A i \in 1..Len(deltas) :
        deltas[i][2] = 0 /\ deltas[i][1] \notin SidePrices(levels)

\* A delta payload of at least one entry, all of them (p, 0) on a price
\* absent from the side they target.
ZeroOnAbsentDelta(s, book) ==
    /\ \E k \in DOMAIN s : s[k] # << >>
    /\ "bids" \in DOMAIN s => ZeroOnAbsent(s["bids"], book.bids)
    /\ "asks" \in DOMAIN s => ZeroOnAbsent(s["asks"], book.asks)

\* C5: a delta message whose entries are all (p, 0) on prices absent from the
\* side they target leaves the book unchanged: both sides hold the same levels
\* and get_best_bid / get_best_ask answer as before the message.
C5_ZeroDeltaOnAbsentIsNoop ==
    [][\A t \in DOMAIN books : \A s \in SideDicts :
          (/\ last'.op = "orderbook_delta"
           /\ last'.ticker = t
           /\ ZeroOnAbsentDelta(s, books[t])
           /\ books' = handle_ws_message(books, DeltaMsg(t, s)))
          => /\ SameLevels(books'[t].bids, books[t].bids)
             /\ SameLevels(books'[t].asks, books[t].asks)
             /\ get_best_bid(books', t) = get_best_bid(books, t)
             /\ get_best_ask(books', t) = get_best_ask(books, t)]_vars

\* What a snapshot payload says a side is: the entries under data["yes"][k]
\* as levels, and no level when either key is missing.
PayloadSide(data, k) ==
    IF "yes" \in DOMAIN data /\ k \in DOMAIN data["yes"]
    THEN [i \in 1..Len(data["yes"][k]) |->
             [price |-> data["yes"][k][i][1], quantity |-> data["yes"][k][i][2]]]
    ELSE << >>

\* C6: in every reachable state of a subscribed ticker, applying a snapshot
\* (as the REST seed or as a feed snapshot message) leaves the book with
\* exactly the payload's bids and asks, a missing side key giving an empty
\* side, and leaves every other book as it was.
C6_SnapshotReplaces ==
    \A t \in DOMAIN books : \A d \in DataDicts :
        LET seeded == update_book_from_snapshot(books, t, d)
            pushed == handle_ws_message(books, SnapshotMsg(t, d))
        IN  /\ seeded[t].bids = PayloadSide(d, "bids")
            /\ seeded[t].asks = PayloadSide(d, "asks")
            /\ pushed = seeded
            /\ \A u \in DOMAIN books \ {t} : seeded[u] = books[u]

\* C6 witness: a feed snapshot has just replaced a book that held levels,
\* and the side its payload left out is empty.
C6_Witness ==
    /\ last.op = "orderbook_snapshot"
    /\ last.had
    /\ last.ticker \in DOMAIN books
    /\ books[last.ticker].bids = << >>
    /\ Len(books[last.ticker].asks) = MaxLevels

\* C7: applying a delta message is idempotent: once a delta message has been
\* applied, applying the same message again leaves the books as they are.
C7_DeltaIdempotent ==
    [][\A t \in DOMAIN books : \A s \in SideDicts :
          (/\ last'.op = "orderbook_delta"
           /\ last'.ticker = t
           /\ books' = handle_ws_message(books, DeltaMsg(t, s)))
          => handle_ws_message(books', DeltaMsg(t, s)) = books']_vars

RECURSIVE SumQty(_, _, _)
\* Sum of the quantities of the levels from index i on priced at most limit.
SumQty(levels, i, limit) ==
    IF i > Len(levels) THEN 0
    ELSE (IF levels[i].price <= limit THEN levels[i].quantity ELSE 0)
         + SumQty(levels, i + 1, limit)

\* asks [(58,10),(59,5),(61,100)] as a seeded book of ticker T1
ExampleBooks ==
    update_book_from_snapshot(books_with_new(<< >>, "T1"), "T1",
        [yes |-> [asks |-> << <<58, 10>>, <<59, 5>>, <<61, 100>> >>]])

\* C8: in every reachable state and for every limit price L,
\* get_available_contracts(ticker, L) is the sum of the quantities of all
\* stored ask levels priced at most L; asks [(58,10),(59,5),(61,100)] with
\* L = 60 give 15.
C8_AvailableIsSumAtOrBelow ==
    /\ \A t \in Tickers : \A L \in 0..(MaxPrice + 1) :
           get_available_contracts(books, t, L) =
               IF t \in DOMAIN books THEN SumQty(books[t].asks, 1, L) ELSE 0
    /\ get_available_contracts(ExampleBooks, "T1", 60) = 15

\* C8 witness: a book whose first stored ask is priced above a limit that a
\* later stored ask meets, with contracts available at that limit.
C8_Witness ==
    \E t \in DOMAIN books :
        /\ Len(books[t].asks) = 2
        /\ books[t].asks[1].price > books[t].asks[2].price
        /\ get_available_contracts(books, t, books[t].asks[2].price) > 0

\* C9: for a ticker that was never subscribed, get_best_ask and get_best_bid
\* return None, get_asks the empty list, get_available_contracts 0 and
\* get_book None, in every reachable state.
C9_UnsubscribedReadsEmpty ==
    \A t \in Tickers \ subscribed :
        /\ get_best_ask(books, t) = None
        /\ get_best_bid(books, t) = None
        /\ get_asks(books, t) = << >>
        /\ \A L \in 0..(MaxPrice + 1) : get_available_contracts(books, t, L) = 0
        /\ get_book(books, t) = None

\* C9 witness: a snapshot or delta message naming a never-subscribed ticker
\* has just been handled, while another ticker's book holds a level.
C9_Witness ==
    /\ last.op \in {"orderbook_snapshot", "orderbook_delta"}
    /\ last.ticker \in Tickers \ subscribed
    /\ \E u \in subscribed : HadLevels(books, u)

\* C10: a subscribe call for a ticker already in the subscription set changes
\* neither the books, nor the subscription set, nor the seed in progress, and
\* issues no REST fetch.
C10_ResubscribeIsNoop ==
    [][\A t \in subscribed :
          (last'.op \in {"subscribe", "resubscribe"} /\ last'.ticker = t)
          => /\ books' = books
             /\ subscribed' = subscribed
             /\ seed' = seed
             /\ fetches' = fetches]_vars

\* C10 witness: subscribe has just returned for a ticker whose seed fetch had
\* failed, and the ticker has been fetched once.
C10_Witness ==
    /\ last.op = "resubscribe"
    /\ seed[last.ticker] = "failed"
    /\ fetches[last.ticker] = 1
    /\ \E u \in subscribed : HadLevels(books, u)

\* C11 as stated: after a failed seed fetch the ticker is subscribed and its
\* book is empty, both sides, with best bid and best ask None.
C11_FailedSeedLeavesEmptyBook ==
    last.op = "seed_failed" =>
        /\ last.ticker \in subscribed
        /\ last.ticker \in DOMAIN books
        /\ books[last.ticker].bids = << >>
        /\ books[last.ticker].asks = << >>
        /\ get_best_bid(books, last.ticker) = None
        /\ get_best_ask(books, last.ticker) = None

\* C11: when the REST fetch of subscribe(ticker) fails, subscribe returns
\* without raising, the ticker stays in the subscription set, and the failure
\* changes no book, the ticker's own or another's: the ticker's book is empty
\* with best bid and best ask None when it was empty as the failure arrived,
\* and holds what the feed put there when a feed message for the ticker was
\* applied while the fetch was in flight.
C11_FailedSeedChangesNoBook ==
    [][\A t \in Tickers :
          (last'.op = "seed_failed" /\ last'.ticker = t)
          => /\ seed'[t] = "failed"
             /\ subscribed' = subscribed
             /\ t \in subscribed'
             /\ books' = books
             /\ t \in DOMAIN books'
             /\ ~HadLevels(books, t)
                => /\ books'[t].bids = << >>
                   /\ books'[t].asks = << >>
                   /\ get_best_bid(books', t) = None
                   /\ get_best_ask(books', t) = None]_vars

\* C11 witness: a seed fetch has just failed, the ticker's book is empty and
\* another ticker's book holds a level.
C11_Witness ==
    /\ last.op = "seed_failed"
    /\ seed[last.ticker] = "failed"
    /\ ~HadLevels(books, last.ticker)
    /\ \E u \in subscribed \ {last.ticker} : HadLevels(books, u)

\* The levels of s in ascending price order.
Ascending(s) == \A i \in 1..(Len(s) - 1) : s[i].price <= s[i + 1].price

\* The first price of a side as an Optional.
FirstPrice(levels) == IF levels = << >> THEN None ELSE Some(levels[1].price)

\* C12: when the REST fetch of subscribe(ticker) for a new ticker succeeds,
\* subscribe returns with the ticker's book holding exactly the bid and ask
\* levels of the response {"yes": {"bids": [...], "asks": [...]}}, whatever
\* the feed had put there meanwhile: in every state in which subscribe awaits
\* the response and for every response, the books it leaves as it returns
\* have get_best_bid and get_best_ask return the first bid and the first ask
\* of the response and get_asks return the asks of the response in ascending
\* price order, and no other book changes.
C12_SeedHoldsResponse ==
    \A t \in BookTickers :
        seed[t] = "in_flight" =>
        \A d \in DataDicts :
            LET returned == update_book_from_snapshot(books, t, d)
            IN  /\ ~snapshot_raises(books, t, d)
                /\ returned[t].bids = PayloadSide(d, "bids")
                /\ returned[t].asks = PayloadSide(d, "asks")
                /\ get_best_bid(returned, t) = FirstPrice(PayloadSide(d, "bids"))
                /\ get_best_ask(returned, t) = FirstPrice(PayloadSide(d, "asks"))
                /\ SameLevels(get_asks(returned, t), PayloadSide(d, "asks"))
                /\ Ascending(get_asks(returned, t))
                /\ \A u \in DOMAIN books \ {t} : returned[u] = books[u]

\* C12 witness: subscribe has just returned after a successful fetch that
\* found levels put in the book by the feed, and the book holds a bid and an
\* ask.
C12_Witness ==
    /\ last.op = "seed"
    /\ last.had
    /\ seed[last.ticker] = "ok"
    /\ books[last.ticker].bids # << >>
    /\ books[last.ticker].asks # << >>

\* C13: on every successful connection of the feed, the first one and each
\* reconnection, a subscribe command carrying the full set of the tickers
\* subscribed at that time is sent on the new connection: once every
\* start_websocket call has returned, an open connection that was made with
\* tickers subscribed has had a subscribe command naming all of them.
C13_SubscribeSentOnEveryConnection ==
    (/\ ws.state = "open"
     /\ ws.want # {}
     /\ \E k \in TaskIds : Live(k) /\ run_ws[k].pc = "receiving"
     /\ \A k \in TaskIds : starting[k].pc # "sleeping")
    => \E cmd \in ws.sent : ws.want \subseteq cmd

\* C14: while the manager is running, a transport error of a connection
\* attempt or of the open stream is caught by the run loop: the loop does not
\* exit but sleeps for the backoff delay, the sleep ends only after the whole
\* delay has gone by second by second, the loop then makes a fresh
\* connection attempt, and a sleeping loop does get to that attempt unless
\* stop() cancels it.
C14_ErrorBacksOffThenReconnects ==
    /\ [][\A k \in TaskIds :
             /\ (ConnectFail(k) \/ StreamError(k))
                => /\ run_ws'[k].pc = "sleeping"
                   /\ run_ws'[k].timer = BackoffDelay
                   /\ Live(k)'
             /\ (run_ws[k].pc = "sleeping" /\ run_ws'[k].pc = "sleeping")
                => run_ws'[k].timer \in {run_ws[k].timer, run_ws[k].timer - 1}
             /\ (run_ws[k].pc = "sleeping" /\ run_ws'[k].pc # "sleeping")
                => \/ run_ws[k].cancel /\ run_ws'[k].pc = "done"
                   \/ /\ run_ws[k].timer = 0
                      /\ running
                      /\ run_ws'[k].pc = "connecting"]_vars
    /\ \A k \in TaskIds :
          (run_ws[k].pc = "sleeping" /\ Live(k))
              ~> (run_ws[k].pc = "connecting" \/ ~Live(k))

\* C14 witness: the manager is running, and a run loop whose connection
\* attempt or stream failed has slept the whole backoff delay.
C14_Witness ==
    /\ running
    /\ last.op = "run_ws"
    /\ ws.state \in {"none", "closed"}
    /\ \E k \in TaskIds :
          /\ Live(k)
          /\ run_ws[k].pc = "sleeping"
          /\ run_ws[k].timer = 0

\* C15: a transport failure of the feed, the backoff wait and the
\* reconnection change no book: every step of the run loop other than the
\* handling of a message leaves the books and the subscription set as they
\* are, so get_best_bid, get_best_ask, get_asks and get_available_contracts
\* answer during the outage and after the reconnect as before the failure.
C15_OutageLeavesBooks ==
    [][last'.op \in {"ws_error", "run_ws"} =>
          /\ books' = books
          /\ subscribed' = subscribed
          /\ \A t \in Tickers :
                /\ get_best_bid(books', t) = get_best_bid(books, t)
                /\ get_best_ask(books', t) = get_best_ask(books, t)
                /\ get_asks(books', t) = get_asks(books, t)
                /\ get_book(books', t) = get_book(books, t)]_vars

\* C15 witness: the stream has failed, the run loop is part-way through its
\* backoff sleep, and a book holds a level.
C15_Witness ==
    /\ last.op = "run_ws"
    /\ ws.state = "closed"
    /\ \E k \in TaskIds :
          /\ Live(k)
          /\ run_ws[k].pc = "sleeping"
          /\ run_ws[k].timer \in 1..(BackoffDelay - 1)
    /\ \E t \in subscribed : HadLevels(books, t)

\* C16: after stop(), in whatever state the run loop is, the manager is not
\* running and the loop's task has its cancellation asked for; a task whose
\* cancellation is asked for takes no step but its end (no connection
\* attempt, no backoff sleep), that end is always ready to be taken, and it
\* is taken.
C16_StopEndsRunLoop ==
    /\ [][/\ last'.op = "stop"
             => /\ ~running'
                /\ ws_task # 0
                   => run_ws'[ws_task].cancel \/ run_ws'[ws_task].pc = "done"
          /\ \A k \in TaskIds :
                run_ws[k].cancel
                => /\ run_ws'[k].cancel
                   /\ run_ws'[k].pc \in {run_ws[k].pc, "done"}]_vars
    /\ [](\A k \in TaskIds :
             (run_ws[k].cancel /\ run_ws[k].pc # "done") => ENABLED TaskCancelled(k))
    /\ \A k \in TaskIds : run_ws[k].cancel ~> (run_ws[k].pc = "done")

\* C16 witness: stop() was called on a run loop that had an open connection,
\* the loop has ended and the manager is not running.
C16_Witness ==
    /\ ~running
    /\ last.op = "run_ws"
    /\ ws.state = "open"
    /\ \E k \in TaskIds : run_ws[k].cancel /\ run_ws[k].pc = "done"
    /\ \A k \in TaskIds : ~Live(k)

\* The run_ws tasks that can still run their loop.
LiveTasks == {k \in TaskIds : Live(k)}

C18_UnknownTypeIgnored ==
    [][last'.op \notin {"orderbook_snapshot", "orderbook_delta"} =>
       \A k \in TaskIds : \A frame \in FeedFrames :
          (/\ "not_json" \notin DOMAIN frame
           /\ MsgType(frame) \notin {"orderbook_snapshot", "orderbook_delta"}
           /\ RecvMessage(k, frame))
          => /\ books' = books
             /\ subscribed' = subscribed
             /\ ~frame_raises(books, frame)
             /\ run_ws'[k].pc = "receiving"
             /\ Live(k)'
             /\ ws' = ws]_vars

\* C18 witness: a message of type "subscribed" has just been handled, the
\* run loop reads on and a book holds a level.
C18_Witness ==
    /\ last.op = "subscribed"
    /\ \E k \in TaskIds : Live(k) /\ run_ws[k].pc = "receiving"
    /\ \E t \in subscribed : HadLevels(books, t)

\* A frame that is not JSON, or whose bids or asks hold an entry that is no
\* (price, quantity) pair.
Malformed(frame) ==
    \/ "not_json" \in DOMAIN frame
    \/ /\ MsgType(frame) = "orderbook_snapshot"
       /\ \/ ~DeltaEntriesOk(SnapshotBidEntries(DictGet(frame, "orderbook", EmptyDict)))
          \/ ~DeltaEntriesOk(SnapshotAskEntries(DictGet(frame, "orderbook", EmptyDict)))
    \/ /\ MsgType(frame) = "orderbook_delta"
       /\ \/ ~DeltaEntriesOk(SnapshotBidEntries(frame))
          \/ ~DeltaEntriesOk(SnapshotAskEntries(frame))

\* C19: a malformed feed message is ignored per message: the run loop goes
\* on reading the same connection, with no backoff sleep and no reconnection.
C19_MalformedMessageIgnored ==
    [][\A k \in TaskIds : \A frame \in FeedFrames :
          (Malformed(frame) /\ RecvMessage(k, frame))
          => /\ run_ws'[k].pc = "receiving"
             /\ run_ws'[k].timer = run_ws[k].timer]_vars

\* C20: a read sees a book either as it was before a snapshot or delta
\* message or as it is with the message applied entirely: a message step
\* leaves the ticker's book unchanged or, when the message can be applied
\* entirely, as the whole message makes it; never new bids beside old asks
\* nor a delta list folded in part.
C20_NoHalfAppliedUpdate ==
    [][\A msg \in RawMessages :
          HandleWsMessage(msg)
          => \A t \in DOMAIN books :
                \/ books'[t] = books[t]
                \/ /\ ~Malformed(msg)
                   /\ books'[t] = handle_ws_message(books, msg)[t]]_vars

\* C21: for every Yes-side best bid b in 0..100 the market answers, the
\* No-side ask _fetch_market_data derives is 100 - b, computed from the bid
\* of that call.
C21_NoAskIsComplement ==
    (last.op = "fetch_market_data" /\ yes_bid # None)
    => /\ market_data.yes_bid = yes_bid
       /\ market_data.no_ask = Some(Cents - yes_bid[1])

\* C22: in every reachable state get_asks(ticker) returns exactly the stored
\* ask levels of the ticker in strictly ascending price order, and the empty
\* list for a ticker with no book.
C22_GetAsksStrictlyAscending ==
    \A t \in Tickers :
        LET a == get_asks(books, t)
        IN  IF t \notin DOMAIN books THEN a = << >>
            ELSE /\ SameLevels(a, books[t].asks)
                 /\ \A i \in 1..(Len(a) - 1) : a[i].price < a[i + 1].price

\* C23: the ticker-to-book map gains entries only through subscribe: in
\* every reachable state the tickers that have a book are the subscription
\* set, a snapshot or delta message naming a never-subscribed ticker leaves
\* the books as they are, and a step that changes the set of tickers with a
\* book is a subscribe call adding its ticker.
C23_BooksOnlyBySubscribe ==
    /\ [](/\ DOMAIN books = subscribed
          /\ \A msg \in Messages :
                MsgTicker(msg) \in Tickers \ subscribed
                => handle_ws_message(books, msg) = books)
    /\ [][DOMAIN books' # DOMAIN books =>
             /\ last'.op = "subscribe"
             /\ DOMAIN books' = DOMAIN books \cup {last'.ticker}]_vars

\* C23 witness: a snapshot message naming a never-subscribed ticker has just
\* been handled while the subscribe call of another ticker awaits its
\* response, and only that other ticker has a book.
C23_Witness ==
    /\ last.op = "orderbook_snapshot"
    /\ last.ticker \in Tickers \ subscribed
    /\ \E u \in subscribed : seed[u] = "in_flight" /\ DOMAIN books = {u}

\* C24: once stop() has taken effect - the manager is not running and every
\* run loop task has ended - no open feed connection remains.
C24_StopClosesConnection ==
    (/\ ~running
     /\ \A k \in TaskIds : run_ws[k].pc \in {"none", "done"})
    => ws.state # "open"

\* The prices a delta list mentions.
MentionedPrices(deltas) == {deltas[i][1] : i \in 1..Len(deltas)}

\* The quantity of the last pair of deltas for price p.
LastQty(deltas, p) ==
    deltas[MaxOf({i \in 1..Len(deltas) : deltas[i][1] = p})][2]

\* The levels of a side at price p, in their order.
LevelsAt(levels, p) == SelectSeq(levels, LAMBDA l : l.price = p)

\* Side new is side old with deltas upserted: at each mentioned price no
\* level when the last quantity for it is 0 and else the one level with that
\* quantity, and at every other price the levels of old.
Upserted(new, old, deltas) ==
    /\ \A p \in MentionedPrices(deltas) :
          LevelsAt(new, p) = IF LastQty(deltas, p) = 0 THEN << >>
                             ELSE << OrderBookLevel(p, LastQty(deltas, p)) >>
    /\ \A p \in (SidePrices(old) \cup SidePrices(new)) \ MentionedPrices(deltas) :
          LevelsAt(new, p) = LevelsAt(old, p)

\* C25: a delta message for a subscribed ticker upserts its pairs into each
\* side it names: afterwards every mentioned price has no level when its last
\* pair has quantity 0 and else exactly one level with that last quantity;
\* levels at unmentioned prices, a side the message does not name and every
\* other ticker's book are unchanged.
C25_DeltaUpserts ==
    [][\A t \in DOMAIN books : \A s \in SideDicts :
          (/\ last'.op = "orderbook_delta"
           /\ last'.ticker = t
           /\ books' = handle_ws_message(books, DeltaMsg(t, s)))
          => /\ IF "bids" \in DOMAIN s
                THEN Upserted(books'[t].bids, books[t].bids, s["bids"])
                ELSE books'[t].bids = books[t].bids
             /\ IF "asks" \in DOMAIN s
                THEN Upserted(books'[t].asks, books[t].asks, s["asks"])
                ELSE books'[t].asks = books[t].asks
             /\ \A u \in DOMAIN books \ {t} : books'[u] = books[u]]_vars

\* C26: a subscribe call for a ticker whose seed fetch has failed issues the
\* REST fetch again, so that a successful response can populate the book.
C26_SubscribeRetriesFailedSeed ==
    [][\A t \in Tickers :
          (/\ seed[t] = "failed"
           /\ last'.op \in {"subscribe", "resubscribe"}
           /\ last'.ticker = t)
          => /\ fetches'[t] = fetches[t] + 1
             /\ seed'[t] = "in_flight"]_vars

\* C27: a ticker subscribed while the manager is running and after
\* start_websocket() has completed is eventually named in a subscribe command
\* sent on the feed, unless the manager is stopped or started again first.
C27_LateSubscribeIsSent ==
    \A t \in BookTickers :
        (/\ last.op = "subscribe"
         /\ last.ticker = t
         /\ running
         /\ starting[ws_task].pc = "done")
        ~> \/ \E cmd \in ws.sent : t \in cmd
           \/ ~running
           \/ \E k \in TaskIds : starting[k].pc = "sleeping"

\* C28: the run loop makes a connection attempt only as its first step or
\* after a backoff sleep that has run its whole delay, also when the previous
\* connection ended without an error.
C28_BackoffBeforeEveryReconnect ==
    [][\A k \in TaskIds :
          (run_ws[k].pc # "connecting" /\ run_ws'[k].pc = "connecting")
          => \/ run_ws[k].pc = "created"
             \/ run_ws[k].pc = "sleeping" /\ run_ws[k].timer = 0]_vars

\* C29: applying a snapshot payload, as the REST seed or as a feed snapshot
\* message, that raises part-way leaves the ticker's book exactly as it was.
C29_SnapshotAllOrNothing ==
    [][\A t \in DOMAIN books : \A d \in RawDataDicts :
          (/\ last'.op \in {"seed_raised", "orderbook_snapshot"}
           /\ last'.ticker = t
           /\ snapshot_raises(books, t, d)
           /\ books' = update_book_from_snapshot(books, t, d))
          => books'[t] = books[t]]_vars

\* C30: for any interleaving of subscribe calls each ticker has exactly one
\* book and one REST fetch when it is subscribed and none when it is not; a
\* subscribe call, overlapping another call for its ticker or for another
\* one, keeps every book there is and touches the seed of no other ticker;
\* and a response that arrives, whatever other fetch is in flight, seeds the
\* book of the ticker it was fetched for with its own bids and asks and ends
\* that ticker's fetch only.
C30_ConcurrentSubscribe ==
    /\ [](\A t \in Tickers :
             /\ fetches[t] = IF t \in subscribed THEN 1 ELSE 0
             /\ t \in DOMAIN books <=> t \in subscribed)
    /\ [][/\ last'.op \in {"subscribe", "resubscribe"}
             => /\ \A u \in DOMAIN books :
                      u \in DOMAIN books' /\ books'[u] = books[u]
                /\ \A u \in Tickers \ {last'.ticker} :
                      seed'[u] = seed[u] /\ fetches'[u] = fetches[u]
                /\ last'.ticker \in subscribed'
                /\ fetches'[last'.ticker] = 1
          /\ last'.op \in {"seed", "seed_failed"}
             => /\ \A u \in DOMAIN books \ {last'.ticker} : books'[u] = books[u]
                /\ \A u \in Tickers \ {last'.ticker} : seed'[u] = seed[u]
                /\ subscribed' = subscribed
                /\ fetches' = fetches
          /\ last'.op = "seed"
             => /\ seed[last'.ticker] = "in_flight"
                /\ seed'[last'.ticker] = "ok"
                /\ \E d \in SmallDataDicts :
                      /\ books' = update_book_from_snapshot(books, last'.ticker, d)
                      /\ books'[last'.ticker].bids = PayloadSide(d, "bids")
                      /\ books'[last'.ticker].asks = PayloadSide(d, "asks")]_vars

\* C30 witness: a second subscribe call for a ticker has just returned while
\* the fetch of the first is in flight and the feed has put a level in the
\* ticker's book, and the fetch of the other ticker is in flight too.
C30_Witness ==
    /\ last.op = "resubscribe"
    /\ seed[last.ticker] = "in_flight"
    /\ HadLevels(books, last.ticker)
    /\ \E u \in Tickers \ {last.ticker} : seed[u] = "in_flight"

====
